---- MODULE Spec2Model ----
(***************************************************************************)
(* A model of the Fleet Analysis Platform dashboard (src/app.py).          *)
(*                                                                         *)
(* The program is one Streamlit script.  Every user interaction (upload,   *)
(* selectbox, radio, number_input) re-runs the whole script from the top:  *)
(* load_excel_sheets (memoised by st.cache_data), the Trips preprocessing, *)
(* and the branch of the selected analysis.  The state that survives a     *)
(* run is the widget state and the cache; what the run shows is `out`.     *)
(*                                                                         *)
(* Time is counted in whole hours since 2024-01-01 00:00 (a Monday).       *)
(* A float is an extended rational <<n, d>> with d >= 0: d > 0 is n/d,     *)
(* <<1,0>> is +inf, <<-1,0>> is -inf and <<0,0>> is NaN, which is what     *)
(* numpy's float division produces without raising.                        *)
(***************************************************************************)
EXTENDS Integers, Sequences, FiniteSets, TLC

VARIABLES
    excel_file,          \* the uploaded workbook, or NoFile
    cache,               \* st.cache_data's entries of load_excel_sheets
    analysis_option,     \* the selectbox
    metric_option,       \* the radio of the underutilized analysis
    trip_threshold,      \* number_input (NoneVal when not rendered)
    distance_threshold,  \* number_input (NoneVal when not rendered)
    argsort_ties,        \* how this build's quicksort argsort orders equal keys
    trips_df,            \* the Trips table as the last run left it
    out,                 \* what the last run put on the page
    prev_wrote           \* history: the column the run before the last one
                         \* wrote into its Trips table (NotRendered if none)

vars == << excel_file, cache, analysis_option, metric_option, trip_threshold,
           distance_threshold, argsort_ties, trips_df, out, prev_wrote >>

----------------------------------------------------------------------------
(* Program constants (the literals of src/app.py).                         *)

DefaultTripThreshold == 3
DefaultDistanceThreshold == 100
WindowDays == 7
MinDaysActive == 28
IdleThresholdHrs == 6
TopN == 10
AssumedSpeedKmh == 40
SlowSpeedKmh == 10

----------------------------------------------------------------------------
(* Floats as extended rationals.                                           *)

RECURSIVE Gcd(_, _)
Gcd(a, b) == IF b = 0 THEN a ELSE Gcd(b, a % b)

Abs(x) == IF x < 0 THEN -x ELSE x

Sign(x) == IF x > 0 THEN 1 ELSE IF x < 0 THEN -1 ELSE 0

NaN == << 0, 0 >>

\* The canonical form: lowest terms, denominator >= 0, +-inf as <<+-1, 0>>.
Norm(n, d) ==
    IF d = 0 THEN << Sign(n), 0 >>
    ELSE LET g == Gcd(Abs(n), Abs(d))
             s == Sign(d)
         IN  << (s * n) \div g, (s * d) \div g >>

Num(i) == << i, 1 >>

IsNaN(x) == x[1] = 0 /\ x[2] = 0

IsFinite(x) == x[2] > 0

\* a / b in IEEE arithmetic: x/0 is +-inf, 0/0 and anything with NaN is NaN.
FDiv(a, b) == Norm(a[1] * b[2], a[2] * b[1])

FAdd(a, b) ==
    IF IsNaN(a) \/ IsNaN(b) THEN NaN
    ELSE IF a[2] = 0 /\ b[2] = 0 THEN (IF a[1] = b[1] THEN a ELSE NaN)
    ELSE IF a[2] = 0 THEN a
    ELSE IF b[2] = 0 THEN b
    ELSE Norm(a[1] * b[2] + b[1] * a[2], a[2] * b[2])

FMul(a, b) == Norm(a[1] * b[1], a[2] * b[2])

\* a < b; every comparison with NaN is False.
FLt(a, b) ==
    /\ ~IsNaN(a)
    /\ ~IsNaN(b)
    /\ IF a[2] = 0 /\ b[2] = 0 THEN a[1] < b[1]
       ELSE a[1] * b[2] < b[1] * a[2]

FGe(a, b) == ~IsNaN(a) /\ ~IsNaN(b) /\ ~FLt(a, b)

FGt(a, b) == FLt(b, a)

\* f"{x:.2f}": "nan", "inf", "-inf", or the value rounded to hundredths
\* (half to even).  hundredths is the rounded value times 100.
Format2f(x) ==
    IF IsNaN(x) THEN [text |-> "nan", hundredths |-> 0]
    ELSE IF x[2] = 0 THEN [text |-> IF x[1] > 0 THEN "inf" ELSE "-inf", hundredths |-> 0]
    ELSE LET fl == (100 * x[1]) \div x[2]      \* floor(100 x)
             rem == 100 * x[1] - fl * x[2]    \* 0 <= rem < x[2]
             up == 2 * rem > x[2] \/ (2 * rem = x[2] /\ fl % 2 = 1)
         IN  [text |-> "number", hundredths |-> IF up THEN fl + 1 ELSE fl]

----------------------------------------------------------------------------
(* Cells, tables and the pandas operations the script uses.                *)

\* pd.NaT / a blank cell where a date or time is expected.
NaT == -1

\* A cell holding text that is no date or time.
BadText == -2

\* A missing string cell (NaN in an object column).
MissingStr == "<missing>"

\* None, for a sheet that data.get does not find, and for the threshold
\* the script sets to None.
NoSheet == [present |-> FALSE, rows |-> << >>]

NoneVal == -1

Sheet(rows) == [present |-> TRUE, rows |-> rows]

\* r with column c set to v (added, or overwritten when already there).
SetCol(r, c, v) == (c :> v) @@ r

\* df[col] as a sequence of cells.
Column(rows, col) == [i \in DOMAIN rows |-> rows[i][col]]

\* Series.sum(): the missing values are skipped, the sum of nothing is 0.
RECURSIVE SumSkipNa(_)
SumSkipNa(vals) ==
    IF vals = << >> THEN Num(0)
    ELSE LET v == Head(vals)
             rest == SumSkipNa(Tail(vals))
         IN  IF IsNaN(v) THEN rest ELSE FAdd(v, rest)

\* Series.mean(): the sum over the count of what is not missing, NaN for
\* an empty series.
Mean(vals) ==
    LET present == SelectSeq(vals, LAMBDA v : ~IsNaN(v))
    IN  FDiv(SumSkipNa(present), Num(Len(present)))

\* Series.count(): the cells that are not missing.
CountPresent(rows, col) == Len(SelectSeq(rows, LAMBDA r : r[col] # NaT))

SetMin(S) == CHOOSE x \in S : \A y \in S : x <= y

SetMax(S) == CHOOSE x \in S : \A y \in S : x >= y

RECURSIVE SortedSeq(_)
SortedSeq(S) ==
    IF S = {} THEN << >>
    ELSE LET m == SetMin(S) IN << m >> \o SortedSeq(S \ {m})

\* The group keys of df.groupby(col), in groupby's sorted order.
GroupKeys(rows, col) == SortedSeq({ rows[i][col] : i \in DOMAIN rows })

Group(rows, col, k) == SelectSeq(rows, LAMBDA r : r[col] = k)

\* head(n)
HeadN(s, n) == IF Len(s) <= n THEN s ELSE SubSeq(s, 1, n)

\* Series.min() / max() of a datetime column: NaT is skipped, NaT if all are.
DateMin(rows, col) ==
    LET S == { rows[i][col] : i \in DOMAIN rows } \ {NaT}
    IN  IF S = {} THEN NaT ELSE SetMin(S)

DateMax(rows, col) ==
    LET S == { rows[i][col] : i \in DOMAIN rows } \ {NaT}
    IN  IF S = {} THEN NaT ELSE SetMax(S)

\* pd.to_datetime(cell, errors='coerce'): a date-time stays, anything else
\* (blank, text that is no date) becomes NaT.
to_datetime(cell) == IF cell >= 0 THEN cell ELSE NaT

\* str.lower() on the spellings the workbooks use; a missing cell stays missing.
Lower(s) ==
    CASE s \in {"allocated", "Allocated", "ALLOCATED"} -> "allocated"
      [] s \in {"available", "Available", "AVAILABLE"} -> "available"
      [] s \in {"maintenance", "Maintenance"} -> "maintenance"
      [] OTHER -> s

\* dt.day_name() of an hour count since Monday 2024-01-01.
DayNames == << "Monday", "Tuesday", "Wednesday", "Thursday", "Friday",
               "Saturday", "Sunday" >>

day_name(t) == IF t = NaT THEN MissingStr ELSE DayNames[((t \div 24) % 7) + 1]

----------------------------------------------------------------------------
(* The script, top to bottom.                                              *)

SheetNames == {"Trips", "Vehicles", "Drivers", "Hubs", "Clients"}

\* xls.sheet_names of a workbook.
sheet_names(file) == { s \in SheetNames : file[s].present }

\* Lines 14-18: every sheet of the workbook, parsed.
ParseSheets(file) == [s \in sheet_names(file) |-> file[s].rows]

\* A cache that is not keyed by the file: any stored entry is handed out.
load_excel_sheets_Unkeyed(entries, file) ==
    IF entries # {}
    THEN (CHOOSE e \in entries : TRUE).value
    ELSE ParseSheets(file)

\* st.cache_data: the entry stored for this file if there is one, else a
\* fresh parse.  Each call hands out a copy of the stored value, so what a
\* run writes into its tables never reaches the entry.
load_excel_sheets(entries, file) ==
    IF \E e \in entries : e.key = file
    THEN (CHOOSE e \in entries : e.key = file).value
    ELSE ParseSheets(file)

\* The entries after the call.
CacheAfter(entries, file) ==
    IF \E e \in entries : e.key = file THEN entries
    ELSE entries \cup { [key |-> file, value |-> ParseSheets(file)] }

\* dict.get(name): the table, or None.
Get(data, name) == IF name \in DOMAIN data THEN Sheet(data[name]) ELSE NoSheet

\* Line 35: the calendar date of Trip Date with the time of day of Start Time.
TripDateTime(date, start) ==
    IF date = NaT \/ start = NaT THEN NaT
    ELSE (date \div 24) * 24 + (start % 24)

\* Line 36: (End Time - Start Time) in hours; NaN when either is NaT.
DurationHrs(start, end) ==
    IF start = NaT \/ end = NaT THEN NaN ELSE Num(end - start)

\* Lines 31-36, on one row.
PreprocessRow(r) ==
    LET date == to_datetime(r.Trip_Date)
        start == to_datetime(r.Start_Time)
        end == to_datetime(r.End_Time)
    IN  SetCol(SetCol(
          [r EXCEPT !.Trip_Date = date, !.Start_Time = start, !.End_Time = end],
          "Trip_DateTime", TripDateTime(date, start)),
          "Duration_hrs", DurationHrs(start, end))

\* Lines 30-36: only when the Trips sheet is there.
Preprocess(df) ==
    IF df.present THEN Sheet([i \in DOMAIN df.rows |-> PreprocessRow(df.rows[i])]) ELSE df

\* What a run leaves on the page: the tables and numbers of the selected
\* analysis, or the exception that ended the run (Streamlit shows it in
\* place of the rest of the page); df is the Trips table as the run left it.
Shown(analysis, body, df) ==
    [analysis |-> analysis, status |-> "ok", exc |-> "", body |-> body, df |-> df]

Raised(analysis, exc, body, df) ==
    [analysis |-> analysis, status |-> "exception", exc |-> exc, body |-> body,
     df |-> df]

Max(a, b) == IF a >= b THEN a ELSE b

\* The window with an exclusive boundary.
IsRecent_Strict(r, date_cutoff) == r.Trip_Date # NaT /\ r.Trip_Date > date_cutoff

\* No window: every trip counts as recent.
IsRecent_Always(r, date_cutoff) == TRUE

\* Line 70: Trip Date >= date_cutoff; a comparison with NaT is False.
IsRecent(r, date_cutoff) == r.Trip_Date # NaT /\ r.Trip_Date >= date_cutoff

\* Lines 72-75: one row per vehicle that has a recent trip.
SevenDaySummary(recent_trips) ==
    LET keys == GroupKeys(recent_trips, "Vehicle_ID")
    IN  [i \in DOMAIN keys |->
            LET g == Group(recent_trips, "Vehicle_ID", keys[i])
            IN  [Vehicle_ID |-> keys[i],
                 Trips_7d |-> CountPresent(g, "Trip_ID"),
                 Distance_7d |-> SumSkipNa(Column(g, "Distance"))]]

\* Lines 80-85: the rows strictly below the threshold of the chosen metric.
SevenDayFilter(summary, metric, trip_thr, dist_thr) ==
    IF metric = "Trip Count"
    THEN SelectSeq(summary, LAMBDA r : r.Trips_7d < trip_thr)
    ELSE SelectSeq(summary, LAMBDA r : FLt(r.Distance_7d, Num(dist_thr)))

\* Line 107: (Last Trip Date - First Trip Date).dt.days + 1.
DaysActive(first, last) ==
    IF first = NaT \/ last = NaT THEN NaN ELSE Num(((last - first) \div 24) + 1)

\* Line 108: Total Trips / (Days Active / 7).
AvgTripsPerWeek(total, days) == FDiv(Num(total), FDiv(days, Num(7)))

\* Lines 97-108: one row per vehicle over all its trips.
FullSummary(rows) ==
    LET keys == GroupKeys(rows, "Vehicle_ID")
    IN  [i \in DOMAIN keys |->
            LET g == Group(rows, "Vehicle_ID", keys[i])
                total == CountPresent(g, "Trip_ID")
                first == DateMin(g, "Trip_Date")
                last == DateMax(g, "Trip_Date")
                days == DaysActive(first, last)
            IN  [Vehicle_ID |-> keys[i],
                 Total_Trips |-> total,
                 Total_Distance |-> SumSkipNa(Column(g, "Distance")),
                 First_Trip_Date |-> first,
                 Last_Trip_Date |-> last,
                 Days_Active |-> days,
                 Avg_Trips_Week |-> AvgTripsPerWeek(total, days)]]

\* No vehicle is left out of the fleet average.
FilteredSummary_All(full_summary) == full_summary

\* Line 111: the vehicles that have been active for at least 28 days.
FilteredSummary(full_summary) ==
    SelectSeq(full_summary, LAMBDA r : FGe(r.Days_Active, Num(MinDaysActive)))

\* Line 114: the mean of Avg Trips/Week over them (NaN when there are none).
FleetAvg(filtered_summary) ==
    Mean(Column(filtered_summary, "Avg_Trips_Week"))

\* Lines 122-126.
LongTermStatus(row, fleet_avg) ==
    IF FLt(row.Days_Active, Num(MinDaysActive)) THEN "Too New"
    ELSE IF FLt(row.Avg_Trips_Week, fleet_avg) THEN "Underutilized"
    ELSE "Utilized"

\* Lines 55-142.
UnderutilizedVehicles(trips, metric, trip_thr, dist_thr, now) ==
    IF ~trips.present
    THEN Raised("Underutilized vehicles", "TypeError", << >>, trips)
    ELSE
    LET date_cutoff == now - WindowDays * 24
        recent_trips == SelectSeq(trips.rows, LAMBDA r : IsRecent(r, date_cutoff))
        summary == SevenDaySummary(recent_trips)
        filtered == SevenDayFilter(summary, metric, trip_thr, dist_thr)
        \* line 96 writes the column back into trips_df
        df == Sheet([k \in DOMAIN trips.rows |->
                        [trips.rows[k] EXCEPT !.Trip_Date = to_datetime(@)]])
        full == FullSummary(df.rows)
        fleet_avg == FleetAvg(FilteredSummary(full))
        full_summary ==
            [k \in DOMAIN full |->
                SetCol(full[k], "Status", LongTermStatus(full[k], fleet_avg))]
    IN  Shown("Underutilized vehicles",
              [date_cutoff |-> date_cutoff,
               summary |-> summary,
               filtered |-> filtered,
               full_summary |-> full_summary,
               fleet_avg |-> fleet_avg,
               note |-> Format2f(fleet_avg),
               hist_mean |-> Mean([k \in DOMAIN full |-> Num(full[k].Total_Trips)])],
              df)

\* Lines 147-148: the rows whose Status, lowercased, is the given word.
WithStatus(rows, word) == SelectSeq(rows, LAMBDA r : Lower(r.Status) = word)

\* The ratio without the max-with-1 guard.
AllocationPct_NoGuard(n_allocated, n_available) ==
    FMul(FDiv(Num(n_allocated), Num(n_available)), Num(100))

\* Line 157.
AllocationPct(n_allocated, n_available) ==
    FMul(FDiv(Num(n_allocated), Num(Max(n_available, 1))), Num(100))

\* Lines 153-154: Vehicles left-joined with the trip count per vehicle;
\* what the join leaves missing (and a missing Status) is filled with 0.
MergedUsage(vehicles, trips) ==
    [k \in DOMAIN vehicles |->
        LET v == vehicles[k]
        IN  [Vehicle_ID |-> v.Vehicle_ID,
             Status |-> IF v.Status = MissingStr THEN "0" ELSE v.Status,
             Trip_Count |-> Len(Group(trips, "Vehicle_ID", v.Vehicle_ID))]]

\* Lines 146-158.
AllocatedVsAvailable(vehicles, trips) ==
    IF ~vehicles.present
    THEN Raised("Allocated vs available vehicles", "TypeError", << >>, trips)
    ELSE
    LET allocated == WithStatus(vehicles.rows, "allocated")
        available == WithStatus(vehicles.rows, "available")
        metrics == [allocated |-> Len(allocated), available |-> Len(available)]
    IN  IF ~trips.present
        THEN Raised("Allocated vs available vehicles", "AttributeError",
                    metrics, trips)
        ELSE LET pct == AllocationPct(Len(allocated), Len(available))
             IN  Shown("Allocated vs available vehicles",
                       [allocated |-> Len(allocated),
                        available |-> Len(available),
                        merged |-> MergedUsage(vehicles.rows, trips.rows),
                        pct |-> pct,
                        text |-> Format2f(pct)],
                       trips)

\* The positions S of a table ordered by the keys (k1, k2, k3),
\* lexicographically; (k1, k2, k3) differ between any two positions.
RECURSIVE LexArgSort(_, _, _, _)
LexArgSort(k1, k2, k3, S) ==
    IF S = {} THEN << >>
    ELSE LET m == CHOOSE i \in S : \A j \in S \ {i} :
                     \/ k1[i] < k1[j]
                     \/ k1[i] = k1[j] /\ k2[i] < k2[j]
                     \/ k1[i] = k1[j] /\ k2[i] = k2[j] /\ k3[i] < k3[j]
         IN  << m >> \o LexArgSort(k1, k2, k3, S \ {m})

Take(rows, indexer) == [i \in DOMAIN indexer |-> rows[indexer[i]]]

\* Line 162: sort_values(['Vehicle ID', 'Trip DateTime']): by vehicle, then
\* by date-time with NaT last; rows equal in both keep their order (the
\* multi-column sort is a stable lexsort).
SortByVehicleAndTime(rows) ==
    LET last == 1 + SetMax({ rows[i].Trip_DateTime : i \in DOMAIN rows } \cup {0})
    IN  Take(rows,
             LexArgSort([i \in DOMAIN rows |-> rows[i].Vehicle_ID],
                        [i \in DOMAIN rows |->
                            IF rows[i].Trip_DateTime = NaT THEN last
                            ELSE rows[i].Trip_DateTime],
                        [i \in DOMAIN rows |-> i],
                        DOMAIN rows))

\* diff() over the whole sorted table, not per vehicle.
IdleTimeHrs_AcrossVehicles(trips_sorted, i) ==
    IF i = 1 THEN NaN
    ELSE IF trips_sorted[i].Trip_DateTime = NaT
            \/ trips_sorted[i - 1].Trip_DateTime = NaT THEN NaN
    ELSE Num(trips_sorted[i].Trip_DateTime - trips_sorted[i - 1].Trip_DateTime)

\* Line 163: groupby('Vehicle ID')['Trip DateTime'].diff() in hours, for row
\* i of the sorted table: the gap to the row before it when that row is of
\* the same vehicle, missing for the first row of a vehicle or next to NaT.
IdleTimeHrs(trips_sorted, i) ==
    IF i = 1 THEN NaN
    ELSE IF trips_sorted[i - 1].Vehicle_ID # trips_sorted[i].Vehicle_ID THEN NaN
    ELSE IF trips_sorted[i].Trip_DateTime = NaT
            \/ trips_sorted[i - 1].Trip_DateTime = NaT THEN NaN
    ELSE Num(trips_sorted[i].Trip_DateTime - trips_sorted[i - 1].Trip_DateTime)

\* Lines 161-166.
HighIdleTime(trips) ==
    IF ~trips.present
    THEN Raised("High idle time (vehicle or driver)", "AttributeError", << >>, trips)
    ELSE
    LET sorted == SortByVehicleAndTime(trips.rows)
        trips_sorted ==
            [i \in DOMAIN sorted |->
                SetCol(sorted[i], "Idle_Time_hrs", IdleTimeHrs(sorted, i))]
        high_idle ==
            SelectSeq(trips_sorted,
                      LAMBDA r : FGt(r.Idle_Time_hrs, Num(IdleThresholdHrs)))
        \* the three columns shown, without the rows that miss one of them
        complete ==
            SelectSeq(high_idle,
                      LAMBDA r : r.Vehicle_ID # NaT /\ r.Trip_ID # NaT
                                 /\ ~IsNaN(r.Idle_Time_hrs))
        table ==
            [k \in DOMAIN complete |->
                [Vehicle_ID |-> complete[k].Vehicle_ID,
                 Trip_ID |-> complete[k].Trip_ID,
                 Idle_Time_hrs |-> complete[k].Idle_Time_hrs]]
    IN  Shown("High idle time (vehicle or driver)", [high_idle |-> table], trips)

\* Line 170: dt.hour (missing for NaT).
HourOf(t) == IF t = NaT THEN NaT ELSE t % 24

\* Lines 169-179: the two histograms; the days in the fixed order
\* Monday .. Sunday.
PeakUsage(trips) ==
    IF ~trips.present
    THEN Raised("Peak usage hours or days", "TypeError", << >>, trips)
    ELSE
    LET df == Sheet([k \in DOMAIN trips.rows |->
                        LET r == trips.rows[k]
                        IN  SetCol(SetCol(r, "Hour", HourOf(r.Trip_DateTime)),
                                   "Day_of_Week", day_name(r.Trip_DateTime))])
        hours == { df.rows[i].Hour : i \in DOMAIN df.rows } \ {NaT}
        by_hour == SortedSeq(hours)
    IN  Shown("Peak usage hours or days",
              [hour_fig |->
                  [i \in DOMAIN by_hour |->
                      << by_hour[i], Len(Group(df.rows, "Hour", by_hour[i])) >>],
               day_fig |->
                  [d \in DOMAIN DayNames |->
                      << DayNames[d], Len(Group(df.rows, "Day_of_Week", DayNames[d])) >>]],
              df)

\* Lines 183-186: one row per driver, in the order of the driver ids.
DriverStats(rows) ==
    LET keys == GroupKeys(rows, "Driver_ID")
    IN  [i \in DOMAIN keys |->
            LET g == Group(rows, "Driver_ID", keys[i])
            IN  [Driver_ID |-> keys[i],
                 Trip_Count |-> CountPresent(g, "Trip_ID"),
                 Duty_Hours |-> SumSkipNa(Column(g, "Duration_hrs"))]]

\* Where the argsort of this build puts row i of n among the rows with the
\* same key.  sort_values is called without kind=, so numpy's 'quicksort'
\* orders them: that sort gives no guarantee for equal keys.  "stable" is
\* the order its scalar insertion-sort path (n <= 16) happens to keep;
\* "reversed" stands for the orders a partitioning or vectorised path may
\* leave.
TieRank(ties, i, n) ==
    CASE ties = "stable" -> i
      [] ties = "reversed" -> n - i

\* Lines 188-189: sort_values(by='Trip Count', ascending=...).
SortByTripCount(driver_stats, ascending, ties) ==
    LET n == Len(driver_stats)
    IN  Take(driver_stats,
             LexArgSort([i \in 1..n |-> IF ascending THEN driver_stats[i].Trip_Count
                                         ELSE -driver_stats[i].Trip_Count],
                        [i \in 1..n |-> TieRank(ties, i, n)],
                        [i \in 1..n |-> i],
                        1..n))

\* Lines 182-194.
DriverTripCounts(trips, ties) ==
    IF ~trips.present
    THEN Raised("High/low driver trip counts", "AttributeError", << >>, trips)
    ELSE
    LET driver_stats == DriverStats(trips.rows)
    IN  Shown("High/low driver trip counts",
              [driver_stats |-> driver_stats,
               top_10 |-> HeadN(SortByTripCount(driver_stats, FALSE, ties), TopN),
               bottom_10 |-> HeadN(SortByTripCount(driver_stats, TRUE, ties), TopN)],
              trips)

\* The speed with the allocation ratio's kind of guard: a zero duration
\* replaced by 1.
SpeedKmh_Guarded(distance, duration) ==
    FDiv(distance, IF duration = Num(0) THEN Num(1) ELSE duration)

\* Line 199: Distance / Duration (hrs), as float division gives it.
SpeedKmh(distance, duration) == FDiv(distance, duration)

\* Line 200: Speed < 10.
IsLongTrip(r) == FLt(r.Speed_kmh, Num(SlowSpeedKmh))

\* Lines 197-203.
LongTripVsExpected(trips) ==
    IF ~trips.present
    THEN Raised("Long trip vs expected duration", "TypeError", << >>, trips)
    ELSE
    LET df == Sheet([k \in DOMAIN trips.rows |->
                        LET r == trips.rows[k]
                        IN  SetCol(SetCol(r,
                              "Expected_Duration_hrs",
                                  FDiv(r.Distance, Num(AssumedSpeedKmh))),
                              "Speed_kmh", SpeedKmh(r.Distance, r.Duration_hrs))])
        long_trips == SelectSeq(df.rows, IsLongTrip)
    IN  Shown("Long trip vs expected duration",
              [long_trips |->
                  [k \in DOMAIN long_trips |->
                      LET r == long_trips[k]
                      IN  [Trip_ID |-> r.Trip_ID,
                           Vehicle_ID |-> r.Vehicle_ID,
                           Distance |-> r.Distance,
                           Duration_hrs |-> r.Duration_hrs,
                           Expected_Duration_hrs |-> r.Expected_Duration_hrs,
                           Speed_kmh |-> r.Speed_kmh]]],
              df)

AnalysisOptions ==
    << "Underutilized vehicles",
       "Allocated vs available vehicles",
       "High idle time (vehicle or driver)",
       "Peak usage hours or days",
       "High/low driver trip counts",
       "Long trip vs expected duration" >>

MetricOptions == << "Trip Count", "Distance" >>

\* Lines 20-203: one run of the script on an uploaded file.
Script(entries, file, option, metric, trip_thr, dist_thr, now, ties) ==
    LET data == load_excel_sheets(entries, file.sheets)
        trips == Preprocess(Get(data, "Trips"))
        vehicles == Get(data, "Vehicles")
    IN  CASE option = AnalysisOptions[1] ->
                UnderutilizedVehicles(trips, metric, trip_thr, dist_thr, now)
          [] option = AnalysisOptions[2] -> AllocatedVsAvailable(vehicles, trips)
          [] option = AnalysisOptions[3] -> HighIdleTime(trips)
          [] option = AnalysisOptions[4] -> PeakUsage(trips)
          [] option = AnalysisOptions[5] -> DriverTripCounts(trips, ties)
          [] option = AnalysisOptions[6] -> LongTripVsExpected(trips)

----------------------------------------------------------------------------
(* The session: widget state, and one run of the script per interaction.   *)

\* The uploader with no file in it.
NoFile == [uploaded |-> FALSE, sheets |-> [s \in SheetNames |-> NoSheet]]

Workbook(sheets) == [uploaded |-> TRUE, sheets |-> sheets]

\* A widget the last run did not render.
NotRendered == ""

\* The page of a run that stops at `if excel_file:`.
BlankPage ==
    [analysis |-> NotRendered, status |-> "ok", exc |-> "", body |-> << >>]

\* The values the user may type into the two number_inputs (min_value=0).
TripThresholdChoices == {0, 1, DefaultTripThreshold}

DistanceThresholdChoices == {0, 60, DefaultDistanceThreshold}

\* The values datetime.now() takes at line 69, in hours: midnight and 05:00
\* of 2024-01-15, so that the cutoff is 2024-01-08 00:00 or 05:00.
Nows == { 14 * 24, 14 * 24 + 5 }

\* datetime.now() is read by the underutilized branch alone.
NowsRead(option) == IF option = AnalysisOptions[1] THEN Nows ELSE {0}

\* The orders of equal keys considered for the build's argsort.
TieOrders == {"stable", "reversed"}

Init ==
    /\ excel_file = NoFile
    /\ cache = {}
    /\ analysis_option = NotRendered
    /\ metric_option = NotRendered
    /\ trip_threshold = NoneVal
    /\ distance_threshold = NoneVal
    /\ argsort_ties \in TieOrders
    /\ trips_df = NoSheet
    /\ out = BlankPage
    /\ prev_wrote = NotRendered

\* The column of the Trips table that the branch of an analysis assigns
\* (lines 96, 170, 199), as seen in the table a run left.
WroteColumn(df) ==
    IF ~df.present \/ df.rows = << >> THEN NotRendered
    ELSE IF "Speed_kmh" \in DOMAIN df.rows[1] THEN "Speed_kmh"
    ELSE IF "Hour" \in DOMAIN df.rows[1] THEN "Hour"
    ELSE NotRendered

\* The script runs top to bottom with the widgets as given.
Rerun(file, option, metric, trip_thr, dist_thr) ==
    \E now \in NowsRead(option) :
        LET r == Script(cache, file, option, metric, trip_thr, dist_thr, now,
                        argsort_ties)
        IN  /\ excel_file' = file
            /\ analysis_option' = option
            /\ metric_option' = metric
            /\ trip_threshold' = trip_thr
            /\ distance_threshold' = dist_thr
            /\ cache' = CacheAfter(cache, file.sheets)
            /\ trips_df' = r.df
            /\ out' = [analysis |-> r.analysis, status |-> r.status,
                       exc |-> r.exc, body |-> r.body]
            /\ prev_wrote' = IF file = excel_file THEN WroteColumn(trips_df)
                              ELSE NotRendered
            /\ UNCHANGED argsort_ties

\* A widget that was not on the page comes up with its default: the first
\* option, "Trip Count", 3 (lines 41-66).
RerunWithDefaults(file, option) ==
    IF option = AnalysisOptions[1]
    THEN Rerun(file, option, MetricOptions[1], DefaultTripThreshold, NoneVal)
    ELSE Rerun(file, option, NotRendered, NoneVal, NoneVal)

\* The user puts a first file into the empty uploader.
Upload(files) ==
    /\ ~excel_file.uploaded
    /\ \E f \in files : RerunWithDefaults(f, AnalysisOptions[1])

\* The user replaces the file; the widgets keep their values.
Replace(files) ==
    /\ excel_file.uploaded
    /\ \E f \in files \ {excel_file} :
          Rerun(f, analysis_option, metric_option, trip_threshold,
                distance_threshold)

\* The user removes the file: the run stops at line 20 and renders nothing.
Clear ==
    /\ excel_file.uploaded
    /\ excel_file' = NoFile
    /\ analysis_option' = NotRendered
    /\ metric_option' = NotRendered
    /\ trip_threshold' = NoneVal
    /\ distance_threshold' = NoneVal
    /\ trips_df' = NoSheet
    /\ out' = BlankPage
    /\ prev_wrote' = NotRendered
    /\ UNCHANGED << cache, argsort_ties >>

\* The selectbox (line 41).
SelectAnalysis ==
    /\ excel_file.uploaded
    /\ \E i \in DOMAIN AnalysisOptions :
          /\ AnalysisOptions[i] # analysis_option
          /\ RerunWithDefaults(excel_file, AnalysisOptions[i])

\* The radio (line 59).
SelectMetric ==
    /\ excel_file.uploaded
    /\ analysis_option = AnalysisOptions[1]
    /\ \E m \in {"Trip Count", "Distance"} \ {metric_option} :
          IF m = "Trip Count"
          THEN Rerun(excel_file, analysis_option, m, DefaultTripThreshold, NoneVal)
          ELSE Rerun(excel_file, analysis_option, m, NoneVal, DefaultDistanceThreshold)

\* The number_input of the chosen metric (lines 62, 65).
SetThreshold ==
    /\ excel_file.uploaded
    /\ analysis_option = AnalysisOptions[1]
    /\ IF metric_option = "Trip Count"
       THEN \E t \in TripThresholdChoices \ {trip_threshold} :
               Rerun(excel_file, analysis_option, metric_option, t, NoneVal)
       ELSE \E t \in DistanceThresholdChoices \ {distance_threshold} :
               Rerun(excel_file, analysis_option, metric_option, NoneVal, t)

\* A download button is pressed, or the page is rerun: the same widgets.
Refresh ==
    /\ excel_file.uploaded
    /\ Rerun(excel_file, analysis_option, metric_option, trip_threshold,
             distance_threshold)

Widgets == SelectAnalysis \/ SelectMetric \/ SetThreshold \/ Refresh

----------------------------------------------------------------------------
(* Workbooks.                                                              *)

Trip(id, vehicle, driver, date, start, end, distance) ==
    [Trip_ID |-> id, Vehicle_ID |-> vehicle, Driver_ID |-> driver,
     Trip_Date |-> date, Start_Time |-> start, End_Time |-> end,
     Distance |-> distance]

Vehicle(id, status) == [Vehicle_ID |-> id, Status |-> status]

\* A workbook with the given Trips and Vehicles sheets ([present, rows])
\* and none of the sheets the script never reads.
Book(trips, vehicles) ==
    Workbook([s \in SheetNames |->
                 CASE s = "Trips" -> trips
                   [] s = "Vehicles" -> vehicles
                   [] OTHER -> NoSheet])

\* All sequences over S of length 0 .. n.
SeqsUpTo(S, n) == UNION { [1..k -> S] : k \in 0..n }

\* Two trips of vehicles 1 and 2 on the first two days of 2024.
SampleTrips ==
    << Trip(1, 1, 1, 0, 8, 10, Num(50)), Trip(2, 2, 1, 24, 32, 33, Num(60)) >>

(* Vehicles sheets of every length up to MaxVehicles over the spellings of *)
(* Status, with a Trips sheet, and one without.                            *)
MaxVehicles == 3

StatusSpellings == {"allocated", "ALLOCATED", "Available", "maintenance"}

VehicleTables ==
    { [i \in DOMAIN st |-> Vehicle(i, st[i])] : st \in SeqsUpTo(StatusSpellings, MaxVehicles) }

VehicleBooks ==
    { Book(Sheet(SampleTrips), Sheet(v)) : v \in VehicleTables }
    \cup { Book(Sheet(SampleTrips),
                 Sheet(<< Vehicle(1, "Allocated"), Vehicle(2, MissingStr),
                          Vehicle(3, "AVAILABLE") >>)),
            Book(NoSheet, Sheet(<< Vehicle(1, "allocated") >>)) }

(* Fleets of up to MaxFleet vehicles, each with one of a few trip          *)
(* histories: a history is the sequence of <<Trip Date, Distance>> of the  *)
(* vehicle's trips (624 h = 26 days, 648 h = 27 days after the first).     *)
MaxFleet == 2

TripHistories ==
    { << >>,                                              \* no trip at all
      << <<0, 50>>, <<168, 60>> >>,                       \* 01-01 and 01-08
      << <<0, 50>>, <<24, 50>>, <<168, 50>>, <<624, 50>> >>,  \* 27 days, busy
      << <<0, 50>>, <<648, 50>> >>,                       \* 28 days, 2 trips
      << <<0, 50>>, <<168, 60>>, <<648, 50>> >>,          \* 28 days, 3 trips
      << <<5, 50>>, <<173, 50>>, <<648, 60>> >>,          \* 26 days 19 hours
      << <<BadText, 50>> >> }                             \* no readable date

\* The trips of vehicle v with history h, numbered from first_id.
HistoryTrips(v, h, first_id) ==
    [k \in DOMAIN h |->
        Trip(first_id + k - 1, v, v, h[k][1], 8, 9, Num(h[k][2]))]

RECURSIVE FleetTrips(_, _, _)
FleetTrips(histories, v, first_id) ==
    IF v > Len(histories) THEN << >>
    ELSE HistoryTrips(v, histories[v], first_id)
         \o FleetTrips(histories, v + 1, first_id + Len(histories[v]))

FleetBooks ==
    { Book(Sheet(FleetTrips(hs, 1, 1)), NoSheet) :
        hs \in [1..MaxFleet -> TripHistories] }

(* Trips sheets of up to MaxIdleTrips rows whose Trip DateTime is 08:00,   *)
(* 14:00 or 15:00 of 2024-01-01 or missing (vehicle 1), or 08:00 of the    *)
(* next day (vehicle 2); the cells are <<vehicle, Trip Date, Start Time>>. *)
MaxIdleTrips == 3

IdleCells ==
    { <<1, 0, 8>>, <<1, 5, 38>>, <<1, 0, 15>>, <<1, 0, BadText>>, <<2, 24, 8>> }

IdleBooks ==
    { Book(Sheet([i \in DOMAIN c |->
                     Trip(i, c[i][1], 1, c[i][2], c[i][3],
                          IF c[i][3] = BadText THEN BadText ELSE c[i][3] + 1,
                          Num(50))]),
           NoSheet) :
        c \in SeqsUpTo(IdleCells, MaxIdleTrips) }

(* Trips sheets for the driver analysis: every sequence of up to three     *)
(* trips of drivers 1 .. 3, and tables of MaxDrivers drivers with one trip *)
(* each, or with a second trip for one or two of them.                     *)
MaxDrivers == 11

DriverTrips(drivers) ==
    [i \in DOMAIN drivers |-> Trip(i, 1, drivers[i], 0, 8, 9, Num(50))]

OneTripEach == [i \in 1..MaxDrivers |-> i]

DriverBooks ==
    { Book(Sheet(DriverTrips(d)), NoSheet) : d \in SeqsUpTo(1..3, 3) }
    \cup { Book(Sheet(DriverTrips(OneTripEach)), NoSheet) }
    \cup { Book(Sheet(DriverTrips(OneTripEach \o << k >>)), NoSheet) :
             k \in 1..MaxDrivers }
    \cup { Book(Sheet(DriverTrips(OneTripEach \o << k, MaxDrivers >>)), NoSheet) :
             k \in 1..(MaxDrivers - 1) }

(* Trips sheets of up to MaxSpeedTrips rows over a few distances and       *)
(* <<Start Time, End Time>> pairs: durations 1, 5, 0, -1 hours, missing.   *)
MaxSpeedTrips == 1

SpeedDistances == { Num(-5), Num(0), Num(5), Num(50), NaN }

SpeedTimes == { <<8, 9>>, <<8, 13>>, <<8, 8>>, <<9, 8>>, <<8, BadText>> }

SpeedBooks ==
    { Book(Sheet([i \in DOMAIN c |->
                     Trip(i, 1, 1, 0, c[i][2][1], c[i][2][2], c[i][1])]),
           NoSheet) :
        c \in SeqsUpTo(SpeedDistances \X SpeedTimes, MaxSpeedTrips) }

(* The workbooks of a session in which files are replaced and removed:     *)
(* with both sheets, with one of them, with neither.                       *)
SessionTrips ==
    << Trip(1, 1, 1, 0, 8, 9, Num(5)),
       Trip(2, 1, 2, 0, 39, 41, Num(50)),
       Trip(3, 2, 2, 168, 8, 8, Num(-5)),
       Trip(4, 2, 1, BadText, 8, BadText, Num(60)),
       Trip(5, 1, 1, 648, 10, 9, Num(40)) >>

SessionVehicles ==
    << Vehicle(1, "Allocated"), Vehicle(2, "available"), Vehicle(3, "maintenance") >>

SessionBooks ==
    { Book(Sheet(SessionTrips), Sheet(SessionVehicles)),
      Book(Sheet(SampleTrips), NoSheet),
      Book(NoSheet, Sheet(SessionVehicles)),
      Book(NoSheet, NoSheet) }

----------------------------------------------------------------------------
(* Specifications.  SpecSession is the whole session on a few workbooks;   *)
(* the others take one workbook from a larger family and run the analysis  *)
(* they are about on it.                                                   *)

NextSession == Upload(SessionBooks) \/ Replace(SessionBooks) \/ Clear \/ Widgets

SpecSession == Init /\ [][NextSession]_vars

NextVehicles == Upload(VehicleBooks) \/ SelectAnalysis \/ Refresh

SpecVehicles == Init /\ [][NextVehicles]_vars

NextFleet == Upload(FleetBooks) \/ SelectMetric \/ SetThreshold \/ Refresh

SpecFleet == Init /\ [][NextFleet]_vars

NextIdle == Upload(IdleBooks) \/ SelectAnalysis \/ Refresh

SpecIdle == Init /\ [][NextIdle]_vars

NextDrivers == Upload(DriverBooks) \/ SelectAnalysis \/ Refresh

SpecDrivers == Init /\ [][NextDrivers]_vars

NextSpeed == Upload(SpeedBooks) \/ SelectAnalysis \/ Refresh

SpecSpeed == Init /\ [][NextSpeed]_vars

----------------------------------------------------------------------------
(* Properties.  What the page should show is stated from the uploaded      *)
(* workbook, independently of the way the script computes it.              *)

\* The last run showed analysis number i to its end.
Ran(i) == out.analysis = AnalysisOptions[i] /\ out.status = "ok"

FileTrips == excel_file.sheets["Trips"].rows

FileVehicles == excel_file.sheets["Vehicles"].rows

\* The spellings that equal a status word case-insensitively.
Spellings(word) ==
    CASE word = "allocated" -> {"allocated", "Allocated", "ALLOCATED"}
      [] word = "available" -> {"available", "Available", "AVAILABLE"}

StatusCount(word) ==
    Cardinality({ i \in DOMAIN FileVehicles : FileVehicles[i].Status \in Spellings(word) })

\* C1: when the allocation analysis shows a ratio, the ratio is a finite
\* number equal to allocated / max(available, 1) * 100, where the counts are
\* the Vehicles rows whose Status is 'allocated' / 'available' in any case;
\* with no available vehicle it is allocated * 100, and the run never ends
\* in a division error.
C1_AllocationRatio ==
    /\ out.exc # "ZeroDivisionError"
    /\ Ran(2) =>
         LET a == StatusCount("allocated")
             b == StatusCount("available")
             pct == out.body.pct
         IN  /\ out.body.allocated = a
             /\ out.body.available = b
             /\ IsFinite(pct)
             /\ pct[1] * Max(b, 1) = a * 100 * pct[2]
             /\ (b = 0 => pct = Num(a * 100))

\* Two allocated vehicles (in different spellings), none available: 200 %.
C1_Witness ==
    /\ Ran(2)
    /\ out.body.available = 0
    /\ out.body.allocated = 2
    /\ out.body.pct = Num(200)
    /\ \E i \in DOMAIN FileVehicles : FileVehicles[i].Status = "ALLOCATED"

VehiclesWithTrips == { FileTrips[i].Vehicle_ID : i \in DOMAIN FileTrips }

TripsOfVehicle(v) == { i \in DOMAIN FileTrips : FileTrips[i].Vehicle_ID = v }

\* The trip dates of v that are dates.
ReadableDates(v) ==
    { FileTrips[i].Trip_Date : i \in { j \in TripsOfVehicle(v) : FileTrips[j].Trip_Date >= 0 } }

HasDaysActive(v) == ReadableDates(v) # {}

\* Whole days from the first to the last trip date, plus 1.
RefDaysActive(v) ==
    ((SetMax(ReadableDates(v)) - SetMin(ReadableDates(v))) \div 24) + 1

\* Trips per week of v: 7 * trips / days active.
RefAvg(v) == Norm(7 * Cardinality(TripsOfVehicle(v)), RefDaysActive(v))

Mature ==
    { v \in VehiclesWithTrips : HasDaysActive(v) /\ RefDaysActive(v) >= MinDaysActive }

RECURSIVE RefSumAvg(_)
RefSumAvg(S) ==
    IF S = {} THEN Num(0)
    ELSE LET u == CHOOSE x \in S : TRUE
         IN  FAdd(RefAvg(u), RefSumAvg(S \ {u}))

\* avg(v) < (sum of avg over Mature) / |Mature|
RefBelowFleetAvg(v) ==
    FLt(FMul(Num(Cardinality(Mature)), RefAvg(v)), RefSumAvg(Mature))

\* C2: the long-term table has one row per vehicle with a trip; its Status
\* is 'Too New' exactly when Days Active (whole days from first to last trip
\* date, plus 1) is below 28, whatever the trip count; with Days Active >= 28
\* it is 'Underutilized' when Avg Trips/Week is strictly below the fleet
\* average and 'Utilized' otherwise, the fleet average being the mean of
\* Avg Trips/Week over the vehicles with Days Active >= 28 only.
C2_LongTermStatus ==
    Ran(1) =>
      LET t == out.body.full_summary
      IN  /\ { t[i].Vehicle_ID : i \in DOMAIN t } = VehiclesWithTrips
          /\ \A i \in DOMAIN t :
               LET v == t[i].Vehicle_ID
               IN  /\ HasDaysActive(v) => t[i].Days_Active = Num(RefDaysActive(v))
                   /\ t[i].Status = "Too New"
                        <=> (HasDaysActive(v) /\ RefDaysActive(v) < MinDaysActive)
                   /\ v \in Mature =>
                        t[i].Status = IF RefBelowFleetAvg(v) THEN "Underutilized"
                                      ELSE "Utilized"
          /\ Mature # {} =>
               out.body.fleet_avg = FDiv(RefSumAvg(Mature), Num(Cardinality(Mature)))

\* A vehicle of 27 days with four trips is 'Too New' beside a vehicle of 28
\* days that has fewer trips per week and is classified.
C2_Witness ==
    /\ Ran(1)
    /\ \E i, j \in DOMAIN out.body.full_summary :
         LET a == out.body.full_summary[i]
             b == out.body.full_summary[j]
         IN  /\ a.Status = "Too New"
             /\ a.Days_Active = Num(27)
             /\ a.Total_Trips = 4
             /\ b.Days_Active = Num(MinDaysActive)
             /\ b.Status = "Utilized"
             /\ FLt(b.Avg_Trips_Week, a.Avg_Trips_Week)

\* C3: when every vehicle has Days Active < 28, the long-term analysis does
\* not carry an undefined fleet average into what it shows: the summary
\* line never reads "nan".
C3_UndefinedFleetAvgHandled ==
    ( /\ Ran(1)
      /\ VehiclesWithTrips # {}
      /\ \A v \in VehiclesWithTrips :
           HasDaysActive(v) /\ RefDaysActive(v) < MinDaysActive )
    => ( ~IsNaN(out.body.fleet_avg) /\ out.body.note.text # "nan" )

\* The analysis a sheet is needed for.
NeededSheets(option) ==
    IF option = AnalysisOptions[2] THEN {"Trips", "Vehicles"} ELSE {"Trips"}

\* C4: when the workbook lacks a sheet that the selected analysis needs,
\* the run ends in an explicit 'required data missing' outcome and never in
\* an unhandled exception.
C4_MissingSheetReported ==
    ( /\ excel_file.uploaded
      /\ \E s \in NeededSheets(analysis_option) : ~excel_file.sheets[s].present )
    => ( out.status = "required data missing" /\ out.exc = "" )

\* The trips of vehicle v in the preprocessed table that have a date-time.
TimedTrips(v) ==
    { i \in DOMAIN trips_df.rows :
        /\ trips_df.rows[i].Vehicle_ID = v
        /\ trips_df.rows[i].Trip_DateTime # NaT }

\* C5: every row of the idle-time table is a trip that is not the first of
\* its vehicle, and its Idle Time is the gap, above 6 hours, to the trip of
\* the same vehicle that precedes it in Trip DateTime order.
C5_IdleRows ==
    Ran(3) =>
      \A k \in DOMAIN out.body.high_idle :
        LET h == out.body.high_idle[k]
            T == trips_df.rows
            same == TimedTrips(h.Vehicle_ID)
        IN  /\ IsFinite(h.Idle_Time_hrs)
            /\ FGt(h.Idle_Time_hrs, Num(IdleThresholdHrs))
            /\ \E i \in same :
                 /\ T[i].Trip_ID = h.Trip_ID
                 /\ T[i].Trip_DateTime > SetMin({ T[j].Trip_DateTime : j \in same })
                 /\ \E p \in same :
                      /\ Num(T[i].Trip_DateTime - T[p].Trip_DateTime) = h.Idle_Time_hrs
                      /\ ~ \E q \in same :
                             /\ T[p].Trip_DateTime < T[q].Trip_DateTime
                             /\ T[q].Trip_DateTime < T[i].Trip_DateTime

\* Trips of two vehicles, the other vehicle's trip lying between two trips
\* of vehicle 1 in the sheet, one row reported.
C5_Witness ==
    /\ Ran(3)
    /\ Len(out.body.high_idle) = 1
    /\ Len(trips_df.rows) = 3
    /\ trips_df.rows[1].Vehicle_ID = 1
    /\ trips_df.rows[2].Vehicle_ID = 2
    /\ trips_df.rows[3].Vehicle_ID = 1

\* The trips of v dated at or after the cutoff.
RefRecent(v, date_cutoff) ==
    { i \in TripsOfVehicle(v) :
        FileTrips[i].Trip_Date >= 0 /\ FileTrips[i].Trip_Date >= date_cutoff }

RECURSIVE RefDistance(_)
RefDistance(S) ==
    IF S = {} THEN 0
    ELSE LET i == CHOOSE x \in S : TRUE
         IN  FileTrips[i].Distance[1] + RefDistance(S \ {i})

SummaryRows(v) ==
    { i \in DOMAIN out.body.summary : out.body.summary[i].Vehicle_ID = v }

\* C6: in the 7-day table the count and the distance of a vehicle are those
\* of its trips with Trip Date >= the cutoff, a trip dated exactly at the
\* cutoff included; trips of vehicle 1 on 2024-01-01 (50 km) and 2024-01-08
\* (60 km) with the cutoff at 2024-01-08 give 1 trip and 60 km.
C6_SevenDayWindow ==
    Ran(1) =>
      LET c == out.body.date_cutoff
      IN  /\ \A v \in VehiclesWithTrips :
               IF RefRecent(v, c) = {} THEN SummaryRows(v) = {}
               ELSE /\ Cardinality(SummaryRows(v)) = 1
                    /\ \A i \in SummaryRows(v) :
                         /\ out.body.summary[i].Trips_7d = Cardinality(RefRecent(v, c))
                         /\ out.body.summary[i].Distance_7d = Num(RefDistance(RefRecent(v, c)))
          /\ ( /\ c = 168
               /\ { << FileTrips[i].Trip_Date, FileTrips[i].Distance >> :
                      i \in TripsOfVehicle(1) } = { <<0, Num(50)>>, <<168, Num(60)>> } )
             => \E i \in SummaryRows(1) :
                  /\ out.body.summary[i].Trips_7d = 1
                  /\ out.body.summary[i].Distance_7d = Num(60)

\* The example of the specification.
C6_Witness ==
    /\ Ran(1)
    /\ out.body.date_cutoff = 168
    /\ { << FileTrips[i].Trip_Date, FileTrips[i].Distance >> :
           i \in TripsOfVehicle(1) } = { <<0, Num(50)>>, <<168, Num(60)>> }
    /\ \E i \in SummaryRows(1) :
         /\ out.body.summary[i].Trips_7d = 1
         /\ out.body.summary[i].Distance_7d = Num(60)

\* The driver table sorted by Trip Count with a stable sort.
RefSortedDrivers(ascending) ==
    LET d == out.body.driver_stats
    IN  Take(d, LexArgSort([i \in DOMAIN d |-> IF ascending THEN d[i].Trip_Count
                                                ELSE -d[i].Trip_Count],
                           [i \in DOMAIN d |-> i],
                           [i \in DOMAIN d |-> 0],
                           DOMAIN d))

\* C7: the driver analysis shows the 10 drivers with the highest Trip Count
\* in descending order and the 10 with the lowest in ascending order, and
\* drivers with equal Trip Count stand in the order of the grouped table.
C7_StableTopAndBottom ==
    Ran(5) =>
      /\ out.body.top_10 = HeadN(RefSortedDrivers(FALSE), TopN)
      /\ out.body.bottom_10 = HeadN(RefSortedDrivers(TRUE), TopN)

ReportedLong(id) ==
    \E k \in DOMAIN out.body.long_trips : out.body.long_trips[k].Trip_ID = id

\* C8 as stated: no trip whose Duration (hrs) is zero or missing is shown by
\* the long-trip analysis, whatever its Distance, and every trip shown has
\* a defined (finite) Speed below 10 km/h.
C8_ZeroDurationNeverReported ==
    Ran(6) =>
      /\ \A i \in DOMAIN trips_df.rows :
           LET r == trips_df.rows[i]
           IN  (IsNaN(r.Duration_hrs) \/ r.Duration_hrs = Num(0))
                 => ~ReportedLong(r.Trip_ID)
      /\ \A k \in DOMAIN out.body.long_trips :
           /\ IsFinite(out.body.long_trips[k].Speed_kmh)
           /\ FLt(out.body.long_trips[k].Speed_kmh, Num(SlowSpeedKmh))

\* C8, amended: the long-trip analysis never raises on a Trips sheet; a trip
\* whose Duration or Distance is missing is not shown; a trip of zero
\* Duration is shown exactly when its Distance is negative (its Speed is
\* -inf); any other trip is shown exactly when Distance / Duration < 10.
C8_LongTrips ==
    /\ (out.analysis = AnalysisOptions[6] /\ excel_file.sheets["Trips"].present)
         => out.status = "ok"
    /\ Ran(6) =>
         /\ \A i \in DOMAIN trips_df.rows :
              LET r == trips_df.rows[i]
                  dur == r.Duration_hrs[1]
                  dist == r.Distance[1]
              IN  ReportedLong(r.Trip_ID) <=>
                    /\ ~IsNaN(r.Duration_hrs)
                    /\ ~IsNaN(r.Distance)
                    /\ \/ dur = 0 /\ dist < 0
                       \/ dur > 0 /\ dist < SlowSpeedKmh * dur
                       \/ dur < 0 /\ dist > SlowSpeedKmh * dur
         /\ \A k \in DOMAIN out.body.long_trips :
              LET r == out.body.long_trips[k]
              IN  /\ r.Speed_kmh = Norm(r.Distance[1] * r.Duration_hrs[2],
                                        r.Distance[2] * r.Duration_hrs[1])
                  /\ FLt(r.Speed_kmh, Num(SlowSpeedKmh))

\* A trip of 5 km with End Time = Start Time: nothing raised, nothing shown.
C8_Witness ==
    /\ Ran(6)
    /\ out.body.long_trips = << >>
    /\ \E i \in DOMAIN trips_df.rows :
         /\ trips_df.rows[i].Duration_hrs = Num(0)
         /\ trips_df.rows[i].Distance = Num(5)

\* The page a run on a freshly parsed copy of the uploaded file shows, with
\* the widgets, the clock and the build of the last run.
FreshPage ==
    LET now == IF Ran(1) THEN out.body.date_cutoff + WindowDays * 24 ELSE 0
        r == Script({}, excel_file, analysis_option, metric_option,
                    trip_threshold, distance_threshold, now, argsort_ties)
    IN  [analysis |-> r.analysis, status |-> r.status, exc |-> r.exc,
         body |-> r.body]

C10_ListedHaveRecentTrip ==
    Ran(1) =>
      \A i \in DOMAIN out.body.filtered :
        RefRecent(out.body.filtered[i].Vehicle_ID, out.body.date_cutoff) # {}

\* Distance metric, threshold 100: a vehicle whose only trip is older than
\* the cutoff is not listed although another vehicle is.
C10_Witness ==
    /\ Ran(1)
    /\ metric_option = "Distance"
    /\ distance_threshold = DefaultDistanceThreshold
    /\ out.body.filtered # << >>
    /\ \E v \in VehiclesWithTrips :
         /\ RefRecent(v, out.body.date_cutoff) = {}
         /\ \A i \in DOMAIN out.body.filtered : out.body.filtered[i].Vehicle_ID # v

====
